---- MODULE Spec2Model ----
(***************************************************************************)
(* Aurora inference runtime (src/inference/runtime/app/main.py).           *)
(*                                                                         *)
(* The module-level globals (model, model_metadata, the four Prometheus    *)
(* metrics) are the shared state.  FastAPI runs every `def` endpoint in a  *)
(* worker thread, so the handlers interleave.  A step holds at most one    *)
(* access to the holder `model`; the local statements and the metric       *)
(* updates around it are folded into the step.  The two files on disk are  *)
(* written by external producers at any time, so every look at a file is   *)
(* an input of the step that takes it: it may find any file.               *)
(*                                                                         *)
(* Input domain: the metadata file, when it parses, holds a JSON object    *)
(* (section 6 of the specification fixes that schema), possibly lacking    *)
(* keys.  A float is modelled by an integer.  The deserialized model is a   *)
(* scikit-learn estimator: its predict may raise, and what it returns is a *)
(* numpy array, so that preds.tolist() does not raise.                     *)
(***************************************************************************)
EXTENDS Integers, Sequences, FiniteSets, TLC

\* ---------------------------------------------------------------- bounds
MaxRequests == 2     \* requests accepted over a run, each in a worker thread

\* ------------------------------------------------------------- constants
DefaultFeatureCount == 8

None == "None"
Procs == 1..MaxRequests

\* Python truthiness of an optional string: None and "" are falsy.
Truthy(s) == s \notin {None, ""}

\* dict.get(k, d)
Get(md, k, d) == IF k \in DOMAIN md THEN md[k] ELSE d

\* {} : the empty dict
EmptyMeta == [k \in {} |-> 0]

\* bool(model_metadata)
MetaTruthy(md) == DOMAIN md # {}

\* ------------------------------------- what a look at a file may find
MetaV1 == [model_name |-> "california-housing", version |-> "1.0",
           algorithm |-> "rf", r2_score |-> 80, trained_at |-> "t1",
           feature_count |-> 8]
MetaV2 == [model_name |-> "california-housing", version |-> "2.0",
           algorithm |-> "rf", r2_score |-> 85, trained_at |-> "t2",
           feature_count |-> 3]
MetaPartial == [version |-> "2.0"]

MetaFiles == {[state |-> "missing", content |-> EmptyMeta],
              [state |-> "corrupt", content |-> EmptyMeta],
              [state |-> "ok", content |-> MetaV1],
              [state |-> "ok", content |-> MetaV2],
              [state |-> "ok", content |-> MetaPartial]}

ModelFiles == {[state |-> "missing", content |-> "none"],
               [state |-> "corrupt", content |-> "none"],
               [state |-> "ok", content |-> "mA"],
               [state |-> "ok", content |-> "mB"]}

Names == {"unknown", "california-housing"}
Versions == {"unknown", "1.0", "2.0"}
Statuses == {"success", "error"}

\* model = None, and a loaded model: obj is the identity of the Python
\* object, content what was deserialized.
NoModel == [obj |-> 0, content |-> "none"]

\* ------------------------------------------------------------ requests
Row(n) == [i \in 1..n |-> i]
InputChoices == {<<>>, <<Row(8)>>, <<Row(3)>>, <<Row(8), Row(7)>>}
Keys == {None, "secret", "wrong"}
Endpoints == {"health", "info", "predict", "metrics", "reload"}
Protected == {"info", "predict", "reload"}

VARIABLES
    API_KEY,          \* os.getenv("API_KEY")
    model,            \* the global model holder
    model_metadata,   \* the global metadata dict
    REQUEST_COUNT,    \* Counter, labels (status, model_version)
    REQUEST_LATENCY,  \* Histogram, label model_version: observations
    MODEL_LOAD_TIME,  \* Gauge: serial of the load that last set it, 0 unset
    MODEL_VERSION,    \* Gauge, labels (model_name, version): -1 no child
    req,              \* per slot: the request being served and its locals
    last,             \* the response sent last, with the locals of its request
    ndone,            \* responses sent so far
    booted,           \* the startup event has completed
    nloads,           \* objects deserialized so far
    nreq              \* requests accepted so far

vars == <<API_KEY, model, model_metadata, REQUEST_COUNT, REQUEST_LATENCY,
          MODEL_LOAD_TIME, MODEL_VERSION,
          req, last, ndone, booted, nloads, nreq>>

metricsVars == <<REQUEST_COUNT, REQUEST_LATENCY, MODEL_LOAD_TIME, MODEL_VERSION>>
shared == <<model, model_metadata, metricsVars>>
resp == <<last, ndone>>

\* No look at the metadata file yet, and looks that found different files.
NoRead == [state |-> "none", content |-> EmptyMeta]
Differing == [state |-> "differing", content |-> EmptyMeta]

\* A free slot, and the locals of a request.
Idle == [ep |-> "none", key |-> None, inputs |-> <<>>, pc |-> "done",
         status |-> 0, exc |-> "none", old_model |-> NoModel,
         new_model |-> NoModel, invoked |-> FALSE, solo |-> FALSE,
         unchanged |-> FALSE, meta_seen |-> "none",
         hstatus |-> "none", hloaded |-> FALSE, preds |-> <<>>,
         meta_read |-> NoRead, from_loaded |-> FALSE]

InFlight(p) == req[p].pc # "done"
\* Slot p is inside the body of reload_model.
Reloading(p) == req[p].ep = "reload" /\ req[p].pc \notin {"done", "auth"}

Set(r, p, f) == [r EXCEPT ![p] = f]

\* A look at the model file finds f: a running reload whose old model was
\* not deserialized from that very content no longer has its file unchanged.
Seen(r, f) ==
    [q \in Procs |-> [r[q] EXCEPT !.unchanged =
        (@ /\ f = [state |-> "ok", content |-> r[q].old_model.content])]]

\* A look at the metadata file finds f: a running reload that found another
\* file in its own look has not had one metadata file all along.
SeenMeta(r, f) ==
    [q \in Procs |-> [r[q] EXCEPT !.meta_read =
        IF @ \in {NoRead, f} THEN @ ELSE Differing]]

\* Slot p goes on with locals f.
Goto(p, f) == req' = Set(req, p, f) /\ UNCHANGED resp

\* Slot p sends the response f and is free again.
Respond(p, f) ==
    /\ req' = Set(req, p, Idle)
    /\ last' = f
    /\ ndone' = ndone + 1

\* ---------------------------------------------------------------- Init
Init ==
    /\ API_KEY \in {None, "", "secret"}
    /\ model = NoModel
    /\ model_metadata = EmptyMeta
    /\ REQUEST_COUNT = [l \in Statuses \X Versions |-> 0]
    /\ REQUEST_LATENCY = [v \in Versions |-> 0]
    /\ MODEL_LOAD_TIME = 0
    /\ MODEL_VERSION = [l \in Names \X Versions |-> -1]
    /\ req = [p \in Procs |->
                IF p = 1 THEN [Idle EXCEPT !.ep = "startup", !.pc = "load_meta"]
                         ELSE Idle]
    /\ last = Idle
    /\ ndone = 0
    /\ booted = FALSE
    /\ nloads = 0
    /\ nreq = 0

\* ------------------------------------------------------------- helpers
\* verify_api_key without the test that a key is configured at all
verify_api_key_unconfigured(key) == key # API_KEY

\* verify_api_key: TRUE when it raises HTTPException(401)
verify_api_key(key) == Truthy(API_KEY) /\ key # API_KEY

FirstStep(ep) ==
    CASE ep = "health" -> "h_status"
      [] ep = "info" -> "info"
      [] ep = "predict" -> "p_check"
      [] ep = "metrics" -> "metrics"
      [] ep = "reload" -> "r_snapshot"

\* The label pair of MODEL_VERSION.labels(...) in load_model
GaugeLabel(md) == <<Get(md, "model_name", "unknown"), Get(md, "version", "unknown")>>

\* REQUEST_COUNT.labels(status=..., model_version=...).inc()
IncCount(rc, status, md) ==
    [rc EXCEPT ![<<status, Get(md, "version", "unknown")>>] = @ + 1]

\* REQUEST_LATENCY.labels(model_version=...).observe(...)
Observe(h, md) == [h EXCEPT ![Get(md, "version", "unknown")] = @ + 1]

\* ------------------------------------------------------ request arrival
\* A request arrives and takes the first free worker (the worker threads
\* are interchangeable).  FastAPI resolves Depends(verify_api_key) of the
\* protected endpoints before the handler body runs.
Call(p) ==
    /\ booted
    /\ ~InFlight(p)
    /\ \A q \in Procs : q < p => InFlight(q)
    /\ nreq < MaxRequests
    /\ nreq' = nreq + 1
    /\ \E ep \in Endpoints, key \in Keys, inputs \in InputChoices :
          /\ ep # "predict" => inputs = <<>>
          /\ Goto(p, [Idle EXCEPT !.ep = ep, !.key = key, !.inputs = inputs,
                                  !.pc = "auth"])
    /\ UNCHANGED <<API_KEY, shared, booted, nloads>>

\* A key check after which a rejected /model/reload has already cleared the
\* holder
AuthAfterClear(p) ==
    /\ req[p].pc = "auth"
    /\ LET r == req[p]
       IN IF r.ep \in Protected /\ verify_api_key(r.key)
          THEN /\ Respond(p, [r EXCEPT !.pc = "done", !.status = 401])
               /\ model' = IF r.ep = "reload" THEN NoModel ELSE model
          ELSE /\ Goto(p, [r EXCEPT !.pc = FirstStep(r.ep), !.key = None,
                                    !.solo = (r.ep = "reload" /\
                                       \A q \in Procs \ {p} : ~Reloading(q))])
               /\ UNCHANGED model
    /\ UNCHANGED <<API_KEY, model_metadata, metricsVars, booted, nloads, nreq>>

\* The dependency raises 401, or the handler body starts; its api_key
\* parameter is what verify_api_key returned, None.  A reload that starts
\* while another one runs is not alone, and neither is the other one; the
\* reloads that overlap started from a loaded holder when the first did.
Auth(p) ==
    /\ req[p].pc = "auth"
    /\ LET r == req[p]
           others == [q \in Procs |->
                        IF r.ep = "reload" /\ Reloading(q) /\ q # p
                        THEN [req[q] EXCEPT !.solo = FALSE] ELSE req[q]]
       IN IF r.ep \in Protected /\ verify_api_key(r.key)
          THEN Respond(p, [r EXCEPT !.pc = "done", !.status = 401])
          ELSE /\ req' = Set(others, p,
                         [r EXCEPT !.pc = FirstStep(r.ep), !.key = None,
                                   !.solo = (r.ep = "reload" /\
                                      \A q \in Procs \ {p} : ~Reloading(q)),
                                   !.from_loaded = (r.ep = "reload" /\
                                      IF \A q \in Procs \ {p} : ~Reloading(q)
                                      THEN model # NoModel
                                      ELSE \E q \in Procs \ {p} :
                                              Reloading(q) /\ req[q].from_loaded)])
               /\ UNCHANGED resp
    /\ UNCHANGED <<API_KEY, shared, booted, nloads, nreq>>

\* ------------------------------------------------- load_model_metadata
\* What model_metadata is after load_model_metadata found the file f: left
\* alone (cur) when os.path.exists is false, the parsed object, or {} when
\* open or json.load raises.
ParsedMeta(f, cur) ==
    CASE f.state = "missing" -> cur
      [] f.state = "ok" -> f.content
      [] OTHER -> EmptyMeta

\* load_model_metadata(), first statement of load_model
LoadMetadata(p) ==
    /\ req[p].pc = "load_meta"
    /\ \E f \in MetaFiles :
          /\ model_metadata' = ParsedMeta(f, model_metadata)
          /\ req' = Set(SeenMeta(req, f), p,
                         [req[p] EXCEPT !.meta_seen = f.state, !.meta_read = f,
                                        !.pc = "load_model"])
          /\ UNCHANGED resp
    /\ UNCHANGED <<API_KEY, model, metricsVars, booted, nloads, nreq>>

\* ---------------------------------------------------------- load_model
\* load_model returns, the slots being r: the startup event is over, or
\* reload_model's try goes on.
LoadReturns(p, r, ep) ==
    /\ req' = Set(r, p, IF ep = "startup" THEN Idle
                        ELSE [r[p] EXCEPT !.pc = "r_check", !.meta_seen = "none"])
    /\ booted' = (booted \/ ep = "startup")
    /\ UNCHANGED resp

\* load_model that stamps the load time on a failed load too
LoadModelStampsFailure(p) ==
    /\ req[p].pc = "load_model"
    /\ \E f \in ModelFiles :
          IF f.state = "ok"
          THEN LET m == [obj |-> nloads + 1, content |-> f.content]
               IN /\ model' = m
                  /\ nloads' = nloads + 1
                  /\ MODEL_LOAD_TIME' = nloads + 1
                  /\ MODEL_VERSION' = [MODEL_VERSION EXCEPT ![GaugeLabel(model_metadata)] = 1]
                  /\ LoadReturns(p, Set(Seen(req, f), p,
                                        [Seen(req, f)[p] EXCEPT !.new_model = m]), req[p].ep)
          ELSE /\ MODEL_VERSION' = [MODEL_VERSION EXCEPT ![GaugeLabel(model_metadata)] = 0]
               /\ MODEL_LOAD_TIME' = nloads + 1
               /\ LoadReturns(p, Seen(req, f), req[p].ep)
               /\ UNCHANGED <<model, nloads>>
    /\ UNCHANGED <<API_KEY, model_metadata, REQUEST_COUNT, REQUEST_LATENCY, nreq>>

\* The rest of load_model on finding the model file f: the file is missing
\* (gauge 0, return), or joblib.load gives the model (load time, gauge 1),
\* or joblib.load raises (gauge 0).
LoadModel(p) ==
    /\ req[p].pc = "load_model"
    /\ \E f \in ModelFiles :
          IF f.state = "ok"
          THEN LET m == [obj |-> nloads + 1, content |-> f.content]
               IN /\ model' = m
                  /\ nloads' = nloads + 1
                  /\ MODEL_LOAD_TIME' = nloads + 1
                  /\ MODEL_VERSION' = [MODEL_VERSION EXCEPT ![GaugeLabel(model_metadata)] = 1]
                  /\ LoadReturns(p, Set(Seen(req, f), p,
                                        [Seen(req, f)[p] EXCEPT !.new_model = m]), req[p].ep)
          ELSE /\ MODEL_VERSION' = [MODEL_VERSION EXCEPT ![GaugeLabel(model_metadata)] = 0]
               /\ LoadReturns(p, Seen(req, f), req[p].ep)
               /\ UNCHANGED <<model, nloads, MODEL_LOAD_TIME>>
    /\ UNCHANGED <<API_KEY, model_metadata, REQUEST_COUNT, REQUEST_LATENCY, nreq>>

\* -------------------------------------------------------- reload_model
\* old_model = model
ReloadSnapshot(p) ==
    /\ req[p].pc = "r_snapshot"
    /\ Goto(p, [req[p] EXCEPT !.pc = "r_clear", !.old_model = model,
                               !.unchanged = (model # NoModel)])
    /\ UNCHANGED <<API_KEY, shared, booted, nloads, nreq>>

\* model = None
ReloadClear(p) ==
    /\ req[p].pc = "r_clear"
    /\ model' = NoModel
    /\ Goto(p, [req[p] EXCEPT !.pc = "load_meta"])
    /\ UNCHANGED <<API_KEY, model_metadata, metricsVars, booted, nloads, nreq>>

\* reload_model that raises on a failed load without putting old_model back
ReloadCheckNoRollback(p) ==
    /\ req[p].pc = "r_check"
    /\ IF model # NoModel
       THEN Respond(p, [req[p] EXCEPT !.pc = "done", !.status = 200])
       ELSE Respond(p, [req[p] EXCEPT !.pc = "done", !.status = 500,
                                      !.exc = "HTTPException500"])
    /\ UNCHANGED <<API_KEY, shared, booted, nloads, nreq>>

\* if model is not None: return {"status": "reloaded", ...}  else: ...
ReloadCheck(p) ==
    /\ req[p].pc = "r_check"
    /\ IF model # NoModel
       THEN Respond(p, [req[p] EXCEPT !.pc = "done", !.status = 200])
       ELSE Goto(p, [req[p] EXCEPT !.pc = "r_restore"])
    /\ UNCHANGED <<API_KEY, shared, booted, nloads, nreq>>

\* else: model = old_model; raise HTTPException(500, "Failed to reload model")
ReloadRestore(p) ==
    /\ req[p].pc = "r_restore"
    /\ model' = req[p].old_model
    /\ Goto(p, [req[p] EXCEPT !.pc = "r_except", !.exc = "HTTPException500"])
    /\ UNCHANGED <<API_KEY, model_metadata, metricsVars, booted, nloads, nreq>>

\* an except handler of reload_model that drops the metadata as well
ReloadExceptDropsMetadata(p) ==
    /\ req[p].pc = "r_except"
    /\ model' = req[p].old_model
    /\ model_metadata' = EmptyMeta
    /\ Respond(p, [req[p] EXCEPT !.pc = "done", !.status = 500])
    /\ UNCHANGED <<API_KEY, metricsVars, booted, nloads, nreq>>

\* except Exception as e: model = old_model; raise HTTPException(500, str(e))
ReloadExcept(p) ==
    /\ req[p].pc = "r_except"
    /\ model' = req[p].old_model
    /\ Respond(p, [req[p] EXCEPT !.pc = "done", !.status = 500])
    /\ UNCHANGED <<API_KEY, model_metadata, metricsVars, booted, nloads, nreq>>

\* -------------------------------------------------------------- health
\* "status": "ok" if model is not None else "degraded"
HealthStatus(p) ==
    /\ req[p].pc = "h_status"
    /\ Goto(p, [req[p] EXCEPT !.pc = "h_loaded",
                  !.hstatus = IF model # NoModel THEN "ok" ELSE "degraded"])
    /\ UNCHANGED <<API_KEY, shared, booted, nloads, nreq>>

\* "model_loaded": model is not None; the metadata fields; return status
HealthLoaded(p) ==
    /\ req[p].pc = "h_loaded"
    /\ Respond(p, [req[p] EXCEPT !.pc = "done", !.status = 200,
                                 !.hloaded = (model # NoModel)])
    /\ UNCHANGED <<API_KEY, shared, booted, nloads, nreq>>

\* ---------------------------------------------------------- model_info
\* ModelInfo(...) is a pydantic model: name, version, algorithm and
\* trained_at are required str, and .get() without default gives None.
InfoValidates(md) ==
    {"model_name", "version", "algorithm", "trained_at"} \subseteq DOMAIN md

\* The arguments handed to ModelInfo(...)
ModelInfoFields(md) ==
    [name |-> Get(md, "model_name", None),
     version |-> Get(md, "version", None),
     algorithm |-> Get(md, "algorithm", None),
     r2_score |-> Get(md, "r2_score", 0),
     trained_at |-> Get(md, "trained_at", None),
     features |-> Get(md, "feature_count", 0)]

ModelInfoStatus(md) ==
    IF ~MetaTruthy(md) THEN 404
    ELSE IF InfoValidates(md) THEN 200 ELSE 500

model_info(p) ==
    /\ req[p].pc = "info"
    /\ Respond(p, [req[p] EXCEPT !.pc = "done",
                  !.status = ModelInfoStatus(model_metadata),
                  !.exc = IF ModelInfoStatus(model_metadata) = 500
                          THEN "ValidationError" ELSE "none"])
    /\ UNCHANGED <<API_KEY, shared, booted, nloads, nreq>>

\* ------------------------------------------------------------- metrics
metrics(p) ==
    /\ req[p].pc = "metrics"
    /\ Respond(p, [req[p] EXCEPT !.pc = "done", !.status = 200])
    /\ UNCHANGED <<API_KEY, shared, booted, nloads, nreq>>

\* ------------------------------------------------------------- predict
\* predict that raises 503 without counting the error
PredictCheckNoCount(p) ==
    /\ req[p].pc = "p_check"
    /\ IF model = NoModel
       THEN Respond(p, [req[p] EXCEPT !.pc = "done", !.status = 503])
       ELSE Goto(p, [req[p] EXCEPT !.pc = "p_validate"])
    /\ UNCHANGED <<API_KEY, shared, booted, nloads, nreq>>

\* if model is None: count an error, raise HTTPException(503)
PredictCheck(p) ==
    /\ req[p].pc = "p_check"
    /\ IF model = NoModel
       THEN /\ REQUEST_COUNT' = IncCount(REQUEST_COUNT, "error", model_metadata)
            /\ Respond(p, [req[p] EXCEPT !.pc = "done", !.status = 503])
       ELSE /\ Goto(p, [req[p] EXCEPT !.pc = "p_validate"])
            /\ UNCHANGED REQUEST_COUNT
    /\ UNCHANGED <<API_KEY, model, model_metadata, REQUEST_LATENCY, MODEL_LOAD_TIME,
                   MODEL_VERSION, booted, nloads, nreq>>

\* The validation of the try block: TRUE when it raises HTTPException(400)
BadInput(inputs, md) ==
    \/ inputs = <<>>
    \/ \E i \in 1..Len(inputs) :
          Len(inputs[i]) # Get(md, "feature_count", DefaultFeatureCount)

PredictValidate(p) ==
    /\ req[p].pc = "p_validate"
    /\ Goto(p, IF BadInput(req[p].inputs, model_metadata)
               THEN [req[p] EXCEPT !.pc = "p_except", !.exc = "HTTPException400"]
               ELSE [req[p] EXCEPT !.pc = "p_call"])
    /\ UNCHANGED <<API_KEY, shared, booted, nloads, nreq>>

\* The opaque model: a function of what was deserialized and of the rows.
RECURSIVE RowSum(_)
RowSum(row) == IF row = <<>> THEN 0 ELSE Head(row) + RowSum(Tail(row))
Weight(content) == IF content = "mA" THEN 1 ELSE 2
ModelPredict(content, inputs) ==
    [i \in 1..Len(inputs) |-> Weight(content) * RowSum(inputs[i])]

\* preds = model.predict(req.inputs): the global is read again here; on
\* None the attribute lookup raises, and the opaque predict may raise too.
PredictCall(p) ==
    /\ req[p].pc = "p_call"
    /\ IF model = NoModel
       THEN Goto(p, [req[p] EXCEPT !.pc = "p_except", !.exc = "AttributeError"])
       ELSE \/ Goto(p, [req[p] EXCEPT !.pc = "p_count", !.invoked = TRUE,
                            !.preds = ModelPredict(model.content, req[p].inputs)])
            \/ Goto(p, [req[p] EXCEPT !.pc = "p_except", !.invoked = TRUE,
                            !.exc = "PredictError"])
    /\ UNCHANGED <<API_KEY, shared, booted, nloads, nreq>>

\* a success path of predict that counts an error as well
PredictCountBoth(p) ==
    /\ req[p].pc = "p_count"
    /\ REQUEST_COUNT' = IncCount(IncCount(REQUEST_COUNT, "success", model_metadata),
                                 "error", model_metadata)
    /\ REQUEST_LATENCY' = Observe(REQUEST_LATENCY, model_metadata)
    /\ Respond(p, [req[p] EXCEPT !.pc = "done", !.status = 200])
    /\ UNCHANGED <<API_KEY, model, model_metadata, MODEL_LOAD_TIME, MODEL_VERSION,
                   booted, nloads, nreq>>

\* count a success, observe the latency, return the predictions
PredictCount(p) ==
    /\ req[p].pc = "p_count"
    /\ REQUEST_COUNT' = IncCount(REQUEST_COUNT, "success", model_metadata)
    /\ REQUEST_LATENCY' = Observe(REQUEST_LATENCY, model_metadata)
    /\ Respond(p, [req[p] EXCEPT !.pc = "done", !.status = 200])
    /\ UNCHANGED <<API_KEY, model, model_metadata, MODEL_LOAD_TIME, MODEL_VERSION,
                   booted, nloads, nreq>>

\* the except handler of predict without its REQUEST_COUNT line
PredictExceptNoCount(p) ==
    /\ req[p].pc = "p_except"
    /\ Respond(p, [req[p] EXCEPT !.pc = "done", !.status = 500])
    /\ UNCHANGED <<API_KEY, shared, booted, nloads, nreq>>

\* except Exception as e: count an error, raise HTTPException(500, str(e))
PredictExcept(p) ==
    /\ req[p].pc = "p_except"
    /\ REQUEST_COUNT' = IncCount(REQUEST_COUNT, "error", model_metadata)
    /\ Respond(p, [req[p] EXCEPT !.pc = "done", !.status = 500])
    /\ UNCHANGED <<API_KEY, model, model_metadata, REQUEST_LATENCY, MODEL_LOAD_TIME,
                   MODEL_VERSION, booted, nloads, nreq>>

\* ---------------------------------------------------------------- Next
Next ==
    \E p \in Procs :
          \/ Call(p)
          \/ Auth(p)
          \/ LoadMetadata(p)
          \/ LoadModel(p)
          \/ ReloadSnapshot(p)
          \/ ReloadClear(p)
          \/ ReloadCheck(p)
          \/ ReloadRestore(p)
          \/ ReloadExcept(p)
          \/ HealthStatus(p)
          \/ HealthLoaded(p)
          \/ model_info(p)
          \/ metrics(p)
          \/ PredictCheck(p)
          \/ PredictValidate(p)
          \/ PredictCall(p)
          \/ PredictCount(p)
          \/ PredictExcept(p)

\* ------------------------------------------------------------ properties
\* REQUEST_COUNT summed over the model_version label
CountOf(rc, status) ==
    rc[<<status, "unknown">>] + rc[<<status, "1.0">>] + rc[<<status, "2.0">>]

\* A response is sent in this step; it is last'.
Responds == ndone' # ndone

\* Slot p takes the step that leaves pc = at.
Leaves(p, at) == req[p].pc = at /\ req'[p].pc # at

\* C1: a /predict request that passed the key check and the model check and
\* whose inputs are empty or hold a row of the wrong length is answered 400,
\* and the model's predict is not invoked.
C1_BadInputAnswered400 ==
    (last.ep = "predict" /\ last.exc = "HTTPException400")
        => (last.status = 400 /\ ~last.invoked)

\* C2: a reload that runs alone, snapshots a loaded model and whose load
\* attempt gives no model answers 500, and the holder then holds exactly the
\* model it held before the call.
C2_ReloadRollback ==
    [][(/\ Responds
        /\ last'.ep = "reload"
        /\ last'.status # 401
        /\ last'.solo
        /\ last'.old_model # NoModel
        /\ last'.new_model = NoModel)
         => (last'.status = 500 /\ model' = last'.old_model)]_vars

C2_Witness ==
    /\ last.ep = "reload"
    /\ last.status = 500
    /\ last.solo
    /\ last.old_model # NoModel
    /\ last.new_model = NoModel
    /\ model = last.old_model

\* C3: at every point of a reload that started with a loaded model, the
\* holder (what a concurrent reader observes) holds the old model or the
\* new one, never nothing.
C3_SwapIsAtomic ==
    \A p \in Procs :
       (Reloading(p) /\ req[p].old_model # NoModel)
           => (model # NoModel /\ model \in {req[p].old_model, req[p].new_model})

\* C4: a /predict request that passed the key check and finds the holder
\* empty is answered 503, adds exactly 1 to the error counter, leaves the
\* success counter alone and does not invoke predict.
C4_NotLoadedIs503 ==
    [][\A p \in Procs :
          (Leaves(p, "p_check") /\ model = NoModel)
              => (/\ Responds
                  /\ last'.status = 503
                  /\ ~last'.invoked
                  /\ CountOf(REQUEST_COUNT', "error") = CountOf(REQUEST_COUNT, "error") + 1
                  /\ CountOf(REQUEST_COUNT', "success") = CountOf(REQUEST_COUNT, "success"))]_vars

C4_Witness ==
    /\ last.ep = "predict"
    /\ last.status = 503
    /\ ~last.invoked
    /\ CountOf(REQUEST_COUNT, "error") >= 1

\* C5 as stated: every failure response, whatever the endpoint and the kind
\* of failure, comes with an increment of the error counter.
C5_EveryFailureCounted ==
    [][(Responds /\ last'.status >= 400)
         => CountOf(REQUEST_COUNT', "error") = CountOf(REQUEST_COUNT, "error") + 1]_vars

\* C5 as amended: a failure response of /predict past the key check (503
\* not loaded, 500 from the except handler) comes with exactly one increment
\* of the error counter; every other failure response (401, the 404 and 500
\* of /model/info, the 500 of /model/reload) leaves the request counter as
\* it was.
C5_PredictFailuresCounted ==
    [][(Responds /\ last'.status >= 400)
         => IF last'.ep = "predict" /\ last'.status # 401
            THEN /\ CountOf(REQUEST_COUNT', "error") = CountOf(REQUEST_COUNT, "error") + 1
                 /\ CountOf(REQUEST_COUNT', "success") = CountOf(REQUEST_COUNT, "success")
            ELSE REQUEST_COUNT' = REQUEST_COUNT]_vars

C5_Witness ==
    /\ last.ep = "predict"
    /\ last.status = 500
    /\ CountOf(REQUEST_COUNT, "error") >= 1

\* C6: whenever load_model_metadata runs and finds the metadata file
\* missing or unparsable, model_metadata is empty afterwards.
C6_MetadataEmptiedOnFailure ==
    [][\A p \in Procs :
          (Leaves(p, "load_meta") /\ req'[p].meta_seen \in {"missing", "corrupt"})
              => model_metadata' = EmptyMeta]_vars

\* C7: no /predict request calls predict on an empty holder, and none
\* reports an absent model as a 500: an empty holder is always a 503.
C7_EmptyHolderFailsFast ==
    /\ \A p \in Procs : req[p].exc # "AttributeError"
    /\ (last.ep = "predict" /\ last.exc = "AttributeError") => last.status = 503

\* C8: the key check rejects a request exactly when a key is configured,
\* the endpoint is /model/info, /predict or /model/reload, and the key
\* presented is missing or different; the rejection is a 401.
C8_Authentication ==
    [][\A p \in Procs :
          Leaves(p, "auth")
              => LET configured == API_KEY \notin {None, ""}
                     rejected == Responds /\ last'.status = 401
                     passes == ~Responds /\ req'[p].pc = FirstStep(req[p].ep)
                 IN /\ rejected # passes
                    /\ rejected <=> (/\ configured
                                     /\ req[p].ep \in {"info", "predict", "reload"}
                                     /\ req[p].key # API_KEY)]_vars

C8_Witness ==
    /\ API_KEY = "secret"
    /\ last.status = 401
    /\ last.ep \in Protected
    /\ last.key # API_KEY
    /\ \E p \in Procs : req[p].ep \in Protected /\ req[p].pc \notin {"done", "auth"}

\* C9: a reload that snapshots a loaded model and during which the model
\* file is never seen to differ from what that model was deserialized from
\* answers 200, and the holder then predicts as the old model did.
C9_ReloadIdempotent ==
    [][(/\ Responds
        /\ last'.ep = "reload"
        /\ last'.old_model # NoModel
        /\ last'.unchanged)
         => (/\ last'.status = 200
             /\ \A i \in InputChoices :
                   ModelPredict(model'.content, i)
                       = ModelPredict(last'.old_model.content, i))]_vars

\* C10: /health answers 200, with status "ok" and model_loaded true when
\* the holder holds a model, and "degraded" and false when it does not.
C10_HealthReportsHolder ==
    [][(Responds /\ last'.ep = "health")
         => (/\ last'.status = 200
             /\ last'.hloaded = (model' # NoModel)
             /\ last'.hstatus = IF model' # NoModel THEN "ok" ELSE "degraded")]_vars

\* C11 as stated: every load attempt, whether it ends with a model loaded or
\* not, updates the load-timestamp gauge and sets the version gauge of the
\* current (model_name, version) label pair.
C11_EveryLoadUpdatesBothGauges ==
    [][\A p \in Procs :
          Leaves(p, "load_model")
              => (/\ MODEL_LOAD_TIME' # MODEL_LOAD_TIME
                  /\ MODEL_VERSION'[GaugeLabel(model_metadata)] \in {0, 1})]_vars

\* C11 as amended: every load attempt sets the version gauge of the current
\* label pair, to 1 when the model was deserialized and to 0 when it was not,
\* and leaves the other label pairs alone; the load-timestamp gauge is
\* updated exactly when the model was deserialized.
C11_LoadUpdatesGauges ==
    [][\A p \in Procs :
          Leaves(p, "load_model")
              => LET l == GaugeLabel(model_metadata)
                     loaded == model' # model
                 IN /\ loaded => model' # NoModel
                    /\ MODEL_VERSION'[l] = IF loaded THEN 1 ELSE 0
                    /\ \A k \in Names \X Versions :
                          k # l => MODEL_VERSION'[k] = MODEL_VERSION[k]
                    /\ IF loaded THEN MODEL_LOAD_TIME' # MODEL_LOAD_TIME
                                 ELSE MODEL_LOAD_TIME' = MODEL_LOAD_TIME]_vars

C11_Witness ==
    /\ last.ep = "reload"
    /\ last.status = 500
    /\ last.new_model = NoModel
    /\ MODEL_LOAD_TIME = 1
    /\ MODEL_VERSION[GaugeLabel(model_metadata)] = 0

\* C12: a /model/info request that passed the key check is answered 404
\* exactly when the metadata is empty, and 200 for any non-empty metadata,
\* a lacking field being reported with a default and not as absent.
C12_InfoAnswersAnyMetadata ==
    [][\A p \in Procs :
          Leaves(p, "info")
              => (/\ Responds
                  /\ (last'.status = 404) <=> ~MetaTruthy(model_metadata)
                  /\ MetaTruthy(model_metadata)
                        => (/\ last'.status = 200
                            /\ \A k \in DOMAIN ModelInfoFields(model_metadata) :
                                  ModelInfoFields(model_metadata)[k] # None))]_vars

\* C13: after a reload that ran alone and answered 200, the holder holds the
\* model deserialized during the call, which is not the old object, and the
\* metadata is what the metadata loader gives for the file it found during
\* the call: the parsed content, or empty when there was none.
C13_ReloadSwapsModelAndMetadata ==
    [][(/\ Responds
        /\ last'.ep = "reload"
        /\ last'.status = 200
        /\ last'.solo)
         => (/\ last'.new_model # NoModel
             /\ model' = last'.new_model
             /\ model' # last'.old_model
             /\ model_metadata' = IF last'.meta_read.state = "ok"
                                  THEN last'.meta_read.content
                                  ELSE EmptyMeta)]_vars

\* C14: when reloads that overlap started from a loaded holder and the last
\* of them has returned, the holder is not empty.
C14_ReloadsLeaveHolderLoaded ==
    [][(/\ Responds
        /\ last'.ep = "reload"
        /\ last'.status # 401
        /\ last'.from_loaded
        /\ \A q \in Procs : ~Reloading(q)')
         => model' # NoModel]_vars

\* C15: after a reload that found one parsable metadata file and whose model
\* load gave no model (answer 500), the holder holds the old model and the
\* metadata is the content of that file.
C15_FailedReloadKeepsNewMetadata ==
    [][(/\ Responds
        /\ last'.ep = "reload"
        /\ last'.status = 500
        /\ last'.new_model = NoModel
        /\ last'.meta_read.state = "ok")
         => (/\ model' = last'.old_model
             /\ model_metadata' = last'.meta_read.content)]_vars

C15_Witness ==
    /\ last.ep = "reload"
    /\ last.status = 500
    /\ last.new_model = NoModel
    /\ last.meta_read = [state |-> "ok", content |-> MetaV2]
    /\ MODEL_VERSION[<<"california-housing", "1.0">>] = 1
    /\ model # NoModel
    /\ model = last.old_model
    /\ model_metadata = MetaV2

C17_GaugeTellsHolder ==
    (booted /\ \A p \in Procs : ~Reloading(p))
        => ((MODEL_VERSION[GaugeLabel(model_metadata)] = 1) <=> (model # NoModel))

\* C18: at most one label pair of the version gauge has the value 1.
C18_OneVersionAtOne ==
    Cardinality({l \in Names \X Versions : MODEL_VERSION[l] = 1}) <= 1

\* C19: a request rejected by the key check (401) leaves the holder, the
\* metadata, the request counter, the latency histogram and the two gauges
\* as they were, deserializes nothing, and its handler does not run.
C19_RejectedChangesNothing ==
    [][(Responds /\ last'.status = 401)
         => (/\ model' = model
             /\ model_metadata' = model_metadata
             /\ REQUEST_COUNT' = REQUEST_COUNT
             /\ REQUEST_LATENCY' = REQUEST_LATENCY
             /\ MODEL_LOAD_TIME' = MODEL_LOAD_TIME
             /\ MODEL_VERSION' = MODEL_VERSION
             /\ nloads' = nloads
             /\ \A p \in Procs : Leaves(p, "auth") => req'[p] = Idle)]_vars

C19_Witness ==
    /\ last.ep = "reload"
    /\ last.status = 401
    /\ model # NoModel
    /\ MetaTruthy(model_metadata)

Spec == Init /\ [][Next]_vars
====
